---- MODULE Spec2Model ----
(***************************************************************************)
(* Model of the e-mail validator (src/app.py, src/validator.py).           *)
(*                                                                         *)
(* Representation of Python values:                                        *)
(*  - a str that is an address is the sequence of the pieces that          *)
(*    str.split('@') yields: "user@example.com" is <<"user","example.com">>,*)
(*    "not-an-email" is <<"not-an-email">>, "a@" is <<"a","">>, "" is      *)
(*    <<"">>.  The representation is one-to-one ('@'.join is its inverse), *)
(*    "@" in s  is  Len(s) > 1,  and  s.split('@')[1]  is  s[2].            *)
(*  - a JSON number sent as address is EmailNumber; IsStr tells it from a  *)
(*    str.                                                                 *)
(*  - None is NoEmail (<<>>) where an address is expected, None where a    *)
(*    string is expected, and the empty function NoDict where a dict is    *)
(*    expected.                                                            *)
(*  - a handler's steps are taken one after the other with no other        *)
(*    handler in between (Spec, SpecBatch): pc tells where the handler is. *)
(***************************************************************************)
EXTENDS Integers, Sequences, FiniteSets, TLC

\* ------------------------------------------------------------------ bounds
\* longest explicit method list of a request
MaxOrder == 3
\* most items of a batch request
MaxItems == 2
\* email-validator-pro: most worker threads started in a behaviour
MaxStarts == 2
\* the handler threads that are inside _update_stats_after_check together
NThreads == 2
\* most MX records of a domain
MaxMx == 3

\* ------------------------------------------------------- Python constants
None == "<None>"
NoEmail == << >>
NoDict == [x \in {} |-> 0]

\* an "email" that is not a str but a (non-zero) JSON number
EmailNumber == <<"<number>">>
IsStr(e) == e # EmailNumber

Truthy(s) == s # None /\ s # ""
EmailTruthy(e) == e # NoEmail /\ e # <<"">>
IsDict(d) == DOMAIN d # {}
\* str(x) of None or of a str
PyStr(x) == IF x = None THEN "None" ELSE x
\* x or y
PyOr(x, y) == IF Truthy(x) THEN x ELSE y
Max(a, b) == IF a >= b THEN a ELSE b

\* ------------------------------------------------------------ validator.py
DISPOSABLE_DOMAINS ==
  {"mailinator.com", "yopmail.com", "temp-mail.org", "grr.la", "guerillamail.com"}

\* Proxy.__init__(self, host, port, username=None, password=None): the most
\* positional arguments a call may pass
ProxyMaxArgs == 4
\* Proxy(*args) raises TypeError when handed more arguments than that
ProxyRaises(nargs) == nargs > ProxyMaxArgs

ValidationResult(email_, status, method, details, proxy) ==
  [email |-> email_, status |-> status, method |-> method, details |-> details,
   proxy |-> IF Truthy(proxy) THEN PyStr(proxy) ELSE None]

get_domain_from_email(email_) ==
  IF Len(email_) < 2 THEN None ELSE email_[2]

\* (mutant of check_disposable: the local part is looked up)
check_disposable_local(email_) == Len(email_) >= 2 /\ email_[1] \in DISPOSABLE_DOMAINS

\* _check_disposable
check_disposable(email_) == get_domain_from_email(email_) \in DISPOSABLE_DOMAINS

\* What the network answers to one probe invocation, by the kind of return
\* statement the probe's network phase ends in:
\*   "ok"      the success return (RCPT 250, MX records, login, HTTP 200...)
\*   "refused" a definitive negative answer of the remote side
\*   "failed"  the lookup/connection failed or an unexpected exception
NetOutcome == {"ok", "refused", "failed"}

SmtpDialog(email_, proxy, net) ==
  CASE net = "ok" -> ValidationResult(email_, "valid", "smtp", "SMTP RCPT TO success", proxy)
    [] net = "refused" -> ValidationResult(email_, "invalid", "smtp", "SMTP RCPT TO failed", proxy)
    [] OTHER -> ValidationResult(email_, "error", "smtp", "Unexpected SMTP error", proxy)

MxLookup(email_, proxy, net) ==
  CASE net = "ok" -> ValidationResult(email_, "valid", "mx", "MX records found", proxy)
    [] net = "refused" ->
         ValidationResult(email_, "invalid", "mx", "Domain does not exist or has no MX records", proxy)
    [] OTHER -> ValidationResult(email_, "error", "mx", "DNS MX lookup timed out", proxy)

ImapLogin(email_, proxy, net) ==
  CASE net = "ok" -> ValidationResult(email_, "valid", "imap", "IMAP login successful", proxy)
    [] net = "refused" -> ValidationResult(email_, "invalid", "imap", "IMAP login failed", proxy)
    [] OTHER -> ValidationResult(email_, "invalid", "imap",
                   "Could not connect or login via IMAP (all attempts failed)", proxy)

Pop3Login(email_, proxy, net) ==
  CASE net = "ok" -> ValidationResult(email_, "valid", "pop3", "POP3 login successful", proxy)
    [] net = "refused" -> ValidationResult(email_, "invalid", "pop3", "POP3 login failed", proxy)
    [] OTHER -> ValidationResult(email_, "invalid", "pop3",
                   "Could not connect or login via POP3 (all attempts failed)", proxy)

HttpHead(email_, proxy, net) ==
  CASE net = "ok" -> ValidationResult(email_, "valid", "http", "Web service accessible", proxy)
    [] net = "refused" -> ValidationResult(email_, "invalid", "http", "Domain does not exist", proxy)
    [] OTHER -> ValidationResult(email_, "error", "http", "DNS timeout during validation", proxy)

\* A call of a probe that raised: its email argument and the exception.
\* "@" not in email (_get_domain_from_email) raises TypeError when email is a number.
Raised(email_, exc) == [raised |-> TRUE, email |-> email_, exc |-> exc, io |-> FALSE]

\* A probe yields its ValidationResult (res) and whether it touched the network (io),
\* or raises.
validate_smtp(email_, password_, proxy, net) ==
  LET domain == get_domain_from_email(email_) IN
  IF ~IsStr(email_) THEN Raised(email_, "TypeError")
  ELSE IF ~Truthy(domain)
    THEN [res |-> ValidationResult(email_, "error", "smtp", "Invalid email format", proxy),
          io |-> FALSE, raised |-> FALSE]
  ELSE IF check_disposable(email_)
    THEN [res |-> ValidationResult(email_, "disposable", "smtp", "Disposable email detected", proxy),
          io |-> FALSE, raised |-> FALSE]
  ELSE [res |-> SmtpDialog(email_, proxy, net), io |-> TRUE, raised |-> FALSE]

validate_mx(email_, proxy, net) ==
  LET domain == get_domain_from_email(email_) IN
  IF ~IsStr(email_) THEN Raised(email_, "TypeError")
  ELSE IF ~Truthy(domain)
    THEN [res |-> ValidationResult(email_, "error", "mx", "Invalid email format", proxy),
          io |-> FALSE, raised |-> FALSE]
  ELSE IF check_disposable(email_)
    THEN [res |-> ValidationResult(email_, "disposable", "mx", "Disposable email detected", proxy),
          io |-> FALSE, raised |-> FALSE]
  ELSE [res |-> MxLookup(email_, proxy, net), io |-> TRUE, raised |-> FALSE]

validate_imap(email_, password_, proxy, net) ==
  IF ~Truthy(password_)
    THEN [res |-> ValidationResult(email_, "error", "imap",
                                   "Password required for IMAP validation", proxy),
          io |-> FALSE, raised |-> FALSE]
  ELSE IF ~IsStr(email_) THEN Raised(email_, "TypeError")
  ELSE IF check_disposable(email_)
    THEN [res |-> ValidationResult(email_, "disposable", "imap", "Disposable email detected", proxy),
          io |-> FALSE, raised |-> FALSE]
  ELSE IF ~Truthy(get_domain_from_email(email_))
    THEN [res |-> ValidationResult(email_, "error", "imap", "Invalid email format", proxy),
          io |-> FALSE, raised |-> FALSE]
  ELSE [res |-> ImapLogin(email_, proxy, net), io |-> TRUE, raised |-> FALSE]

validate_pop3(email_, password_, proxy, net) ==
  IF ~Truthy(password_)
    THEN [res |-> ValidationResult(email_, "error", "pop3",
                                   "Password required for POP3 validation", proxy),
          io |-> FALSE, raised |-> FALSE]
  ELSE IF ~IsStr(email_) THEN Raised(email_, "TypeError")
  ELSE IF check_disposable(email_)
    THEN [res |-> ValidationResult(email_, "disposable", "pop3", "Disposable email detected", proxy),
          io |-> FALSE, raised |-> FALSE]
  ELSE IF ~Truthy(get_domain_from_email(email_))
    THEN [res |-> ValidationResult(email_, "error", "pop3", "Invalid email format", proxy),
          io |-> FALSE, raised |-> FALSE]
  ELSE [res |-> Pop3Login(email_, proxy, net), io |-> TRUE, raised |-> FALSE]

validate_http(email_, proxy, net) ==
  LET domain == get_domain_from_email(email_) IN
  IF ~IsStr(email_) THEN Raised(email_, "TypeError")
  ELSE IF ~Truthy(domain)
    THEN [res |-> ValidationResult(email_, "error", "http", "Invalid email format", proxy),
          io |-> FALSE, raised |-> FALSE]
  ELSE IF check_disposable(email_)
    THEN [res |-> ValidationResult(email_, "disposable", "http", "Disposable email detected", proxy),
          io |-> FALSE, raised |-> FALSE]
  ELSE [res |-> HttpHead(email_, proxy, net), io |-> TRUE, raised |-> FALSE]

\* ------------------------------------------------------------------ app.py
DEFAULT_METHOD_ORDER == <<"smtp", "mx", "imap", "pop3", "http">>

\* the method names for which try_methods_sync finds a validator method
SupportedMethods == {"smtp", "mx", "imap", "pop3", "http"}

VARIABLES
  pc,                 \* where the running handler is: idle, loop, items, done
  handler,            \* "none", "single" or "batch"
  email,              \* try_methods_sync: email
  password,           \* try_methods_sync: password
  request_proxy,      \* try_methods_sync: request_proxy (None, or str(Proxy))
  methods_order,      \* try_methods_sync: methods_order
  m,                  \* try_methods_sync: index of the for loop in methods_order
  last_result_dict,   \* try_methods_sync: last_result_dict (NoDict is None)
  trace,              \* what the current try_methods_sync/validate_item call did, in order
  stats,              \* app.config['stats'] (NoDict when the key is absent)
  good_csv,           \* the lines appended to results/good.csv
  bad_csv,            \* the lines appended to results/bad.csv
  emails_to_validate, \* validate_multiple_emails_api: the request's "emails"
  idx,                \* validate_multiple_emails_api: index of the item validate_item is at
  results,            \* validate_multiple_emails_api: results so far
  status_code,        \* the HTTP status of the handler's response (0: none yet)
  result,             \* the body of validate_single_email_api's 200 response
  lost,               \* the lines _append_result_csv failed to write (and logged)
  concurrency,        \* validate_multiple_emails_api: concurrency (0: not read yet)
  disk_faulty         \* the results files cannot be written (open raises)

\* the state of the other programs and views of this model: the stand-alone app of
\* src/email-validator-pro/app.py, the threads inside _update_stats_after_check, and
\* one call of validate_smtp seen connection by connection
VARIABLES
  pro_emails,         \* email-validator-pro: emails
  proxies,            \* email-validator-pro: proxies
  pro_results,        \* email-validator-pro: results (of each result, its status)
  pro_stats,          \* email-validator-pro: stats
  running,            \* email-validator-pro: running
  workers,            \* email-validator-pro: the worker threads started, in order
  stop_seen,          \* email-validator-pro: a /stop request has been answered "stopped"
  thr,                \* the threads inside _update_stats_after_check
  smtp_pc,            \* validate_smtp: idle, lookup, connect, done
  smtp_email,         \* validate_smtp: email
  mx_answer,          \* validate_smtp: what the MX lookup did ("": not looked up yet)
  mx_records,         \* validate_smtp: mx_records
  mx_i,               \* validate_smtp: index of the for loop in mx_records
  port_i,             \* validate_smtp: index of the for loop in SMTP_PORTS
  attempts,           \* validate_smtp: the connections opened, in order
  smtp_result,        \* validate_smtp: the ValidationResult returned (NoDict: none yet)
  mail_pc,            \* validate_imap / validate_pop3: idle, login, done
  mail_method,        \* "imap" or "pop3": which of the two functions is called
  mail_email,         \* validate_imap / validate_pop3: email
  host_i,             \* index of the for loop in possible_imap_hosts / possible_pop3_hosts
  mport_i,            \* index of the for loop in IMAP_PORTS / POP3_PORTS
  logins,             \* the host/port combinations tried, in order
  mail_result,        \* the ValidationResult returned (NoDict: none yet)
  http_pc,            \* validate_http: idle, head, lookup, done
  http_email,         \* validate_http: email
  url_i,              \* validate_http: index of the for loop in urls_to_try
  heads,              \* validate_http: the HEAD requests made, in order
  a_answer,           \* validate_http: what the A lookup did ("": not looked up)
  http_result         \* validate_http: the ValidationResult returned (NoDict: none yet)

appVars == <<pc, handler, email, password, request_proxy, methods_order, m, last_result_dict, trace,
             stats, good_csv, bad_csv, emails_to_validate, idx, results, status_code, result,
             lost, concurrency, disk_faulty>>
proVars == <<pro_emails, proxies, pro_results, pro_stats, running, workers, stop_seen>>
smtpVars == <<smtp_pc, smtp_email, mx_answer, mx_records, mx_i, port_i, attempts, smtp_result>>
mailVars == <<mail_pc, mail_method, mail_email, host_i, mport_i, logins, mail_result>>
httpVars == <<http_pc, http_email, url_i, heads, a_answer, http_result>>
probeVars == <<smtpVars, mailVars, httpVars>>
\* what the handlers of src/app.py leave alone
others == <<proVars, thr, probeVars>>
vars == <<appVars, proVars, thr, probeVars>>

\* an entry of trace: a validator method was called ("probe": its name, the status and
\* details of its result, whether it touched the network), a result was persisted
\* ("sink"), or time.sleep(delay_seconds) was called ("sleep")
Event(ev, method, status, details, io) ==
  [ev |-> ev, method |-> method, status |-> status, details |-> details, io |-> io]

\* _append_result_csv: the line it appends (the timestamp is left out)
CsvLine(email_, method, details, proxy_used) ==
  [email |-> email_, method |-> method, details |-> details, proxy |-> PyOr(proxy_used, "")]

\* _append_result_csv, lines 76-84: written tells whether open/write succeeded; a
\* failure is logged and swallowed, and the line is not in the file
append_good(good, is_valid, line, written) ==
  IF is_valid /\ written THEN Append(good, line) ELSE good
append_bad(bad, is_valid, line, written) ==
  IF ~is_valid /\ written THEN Append(bad, line) ELSE bad
append_lost(n, written) == IF written THEN n ELSE n + 1

\* (mutant of update_stats_after_check: remaining is not clamped at 0)
update_stats_after_check_Unclamped(st, result_dict) ==
  IF ~IsDict(st) THEN st
  ELSE [st EXCEPT !.checked = @ + 1,
                  !.remaining = @ - 1,
                  !.good = IF result_dict.is_valid THEN @ + 1 ELSE @,
                  !.bad = IF result_dict.is_valid THEN @ ELSE @ + 1]

\* _update_stats_after_check, lines 86-104
update_stats_after_check(st, result_dict) ==
  IF ~IsDict(st) THEN st
  ELSE [st EXCEPT !.checked = @ + 1,
                  !.remaining = Max(0, @ - 1),
                  !.good = IF result_dict.is_valid THEN @ + 1 ELSE @,
                  !.bad = IF result_dict.is_valid THEN @ ELSE @ + 1]

\* ---- try_methods_sync -------------------------------------------------
\* The state one call of try_methods_sync works on: its locals and the globals
\* it changes.  returned: the call has executed a return statement.
Call(m_, last, tr, st, good, bad, lost_) ==
  [m |-> m_, last |-> last, trace |-> tr, stats |-> st, good |-> good, bad |-> bad,
   lost |-> lost_, returned |-> FALSE]

\* lines 120-129 and 137-140: the validator method of a name, called
validator_method(method, email_, password_, proxy, net) ==
  CASE method = "smtp" -> validate_smtp(email_, password_, proxy, net)
    [] method = "mx" -> validate_mx(email_, proxy, net)
    [] method = "imap" -> validate_imap(email_, password_, proxy, net)
    [] method = "pop3" -> validate_pop3(email_, password_, proxy, net)
    [] method = "http" -> validate_http(email_, proxy, net)

\* lines 146-153
Normalize(result_obj, proxy_to_use) ==
  [email |-> result_obj.email,
   is_valid |-> result_obj.status = "valid",
   status |-> result_obj.status,
   method_used |-> result_obj.method,
   details |-> result_obj.details,
   proxy_used |-> PyStr(PyOr(result_obj.proxy, proxy_to_use))]

\* (mutant of Persist: a failed write raises out of _append_result_csv and the
\* except of line 163 is reached before _update_stats_after_check)
Persist_Raises(c, d, written) ==
  LET line == CsvLine(d.email, d.method_used, d.details, d.proxy_used) IN
  [c EXCEPT !.good = append_good(@, d.is_valid, line, written),
            !.bad = append_bad(@, d.is_valid, line, written),
            !.lost = append_lost(@, written),
            !.stats = IF written THEN update_stats_after_check(@, d) ELSE @,
            !.trace = Append(@, Event("sink", d.method_used, d.status, d.details, FALSE))]

\* lines 156-162: _append_result_csv, then _update_stats_after_check.  None of
\* the modelled details holds a double quote, so replace('"', "'") leaves them.
Persist(c, d, written) ==
  LET line == CsvLine(d.email, d.method_used, d.details, d.proxy_used) IN
  [c EXCEPT !.good = append_good(@, d.is_valid, line, written),
            !.bad = append_bad(@, d.is_valid, line, written),
            !.lost = append_lost(@, written),
            !.stats = update_stats_after_check(@, d),
            !.trace = Append(@, Event("sink", d.method_used, d.status, d.details, FALSE))]

\* (mutant of Skip: break instead of continue)
Skip_Break(c, order) == [c EXCEPT !.m = Len(order) + 1]

\* lines 131-133: the name has no validator method, continue
Skip(c, order) == [c EXCEPT !.m = @ + 1]

\* (mutant of Retain: the first result is kept)
Retain_First(last, d) == IF IsDict(last) THEN last ELSE d

\* line 146: the result of this method becomes last_result_dict
Retain(last, d) == d

\* (mutant of AfterPersist: no return on "valid")
AfterPersist_NoReturn(saved, order, method, status) ==
  IF method # order[Len(order)]
    THEN [saved EXCEPT !.m = @ + 1,
                       !.trace = Append(@, Event("sleep", method, status, "", FALSE))]
  ELSE [saved EXCEPT !.m = @ + 1]

\* lines 166-171: return on "valid", else sleep unless this is the last method
AfterPersist(saved, order, method, status) ==
  IF status = "valid"
    THEN [saved EXCEPT !.returned = TRUE]
  ELSE IF method # order[Len(order)]
    THEN [saved EXCEPT !.m = @ + 1,
                       !.trace = Append(@, Event("sleep", method, status, "", FALSE))]
  ELSE [saved EXCEPT !.m = @ + 1]

\* (mutant of ExceptionResult: a status of its own)
ExceptionResult_Status(email_, method, exc, proxy_to_use) ==
  ValidationResult(email_, "exception", method, "exception: " \o exc, proxy_to_use)

\* lines 141-143: the ValidationResult made of an exception the probe raised
ExceptionResult(email_, method, exc, proxy_to_use) ==
  ValidationResult(email_, "error", method, "exception: " \o exc, proxy_to_use)

\* lines 118-171: one iteration of the for loop, at methods_order[c.m]; probe
\* is what the validator method returns when it is called, written whether the
\* line of the result reaches its file
LoopBody(c, order, proxy_to_use, probe, written) ==
  LET method == order[c.m] IN
  IF method \notin SupportedMethods
    THEN Skip(c, order)
  ELSE
    LET result_obj == IF probe.raised
                        THEN ExceptionResult(probe.email, method, probe.exc, proxy_to_use)
                      ELSE probe.res
        d == Normalize(result_obj, proxy_to_use)
        called == [c EXCEPT !.last = Retain(@, d),
                            !.trace = Append(@, Event("probe", method, result_obj.status,
                                                      result_obj.details, probe.io))]
        saved == Persist(called, called.last, written)
    IN AfterPersist(saved, order, method, result_obj.status)

\* lines 177-184
Fallback(email_, proxy_to_use) ==
  [email |-> email_,
   is_valid |-> FALSE,
   status |-> "no_methods_supported",
   method_used |-> "none",
   details |-> "Validator does not support any of the requested methods",
   proxy_used |-> IF Truthy(proxy_to_use) THEN PyStr(proxy_to_use) ELSE None]

\* lines 173-188: after the loop
LoopEnd(c, email_, proxy_to_use, written) ==
  IF IsDict(c.last)
    THEN [c EXCEPT !.returned = TRUE]
  ELSE
    LET fallback == Fallback(email_, proxy_to_use)
        line == CsvLine(email_, "none", fallback.details, fallback.proxy_used)
    IN [c EXCEPT !.last = fallback,
                 !.bad = append_bad(@, FALSE, line, written),
                 !.good = append_good(@, FALSE, line, written),
                 !.lost = append_lost(@, written),
                 !.stats = update_stats_after_check(@, fallback),
                 !.trace = Append(@, Event("sink", "none", fallback.status, fallback.details, FALSE)),
                 !.returned = TRUE]

\* ---- inputs of the requests --------------------------------------------
MethodNames == SupportedMethods \cup {"ftp"}
Orders == UNION {[1..n -> MethodNames] : n \in 0..MaxOrder}
Passwords == {"", "pw"}
Addresses ==
  {<<"not-an-email">>, <<"a", "b">>, <<"a", "">>, <<"user", "mailinator.com">>,
   <<"user", "example.com">>, <<"a", "b", "example.com">>}
\* the request's "proxy": absent, or a dict {host, port, ...}
ProxyData == {None, "proxy.example:8080"}
\* the request's "method": a string, a list, or some other JSON value
RequestedMethods ==
  {[type |-> "str", name |-> n, list |-> << >>] : n \in MethodNames \cup {"auto"}}
    \cup {[type |-> "list", name |-> "", list |-> o] : o \in Orders}
    \cup {[type |-> "other", name |-> "", list |-> << >>]}

\* lines 224-232 and 255-263 (the "other" case answers 400 before this is used)
MethodsOrder(requested_method) ==
  IF requested_method.type = "str" /\ requested_method.name = "auto"
    THEN DEFAULT_METHOD_ORDER
  ELSE IF requested_method.type = "str" THEN <<requested_method.name>>
  ELSE requested_method.list

\* the arguments the handlers pass to Proxy(...): host, port, username, password, scheme
ProxyCallArgs == 5

InitRequest ==
  /\ pc = "idle"
  /\ handler = "none"
  /\ email = NoEmail
  /\ password = ""
  /\ request_proxy = None
  /\ methods_order = << >>
  /\ m = 1
  /\ last_result_dict = NoDict
  /\ trace = << >>
  /\ good_csv = << >>
  /\ bad_csv = << >>
  /\ emails_to_validate = << >>
  /\ idx = 1
  /\ results = << >>
  /\ status_code = 0
  /\ result = NoDict
  /\ lost = 0
  /\ concurrency = 0

\* email-validator-pro/app.py lines 26-37: the globals when the module is loaded
InitPro ==
  /\ pro_emails = << >>
  /\ proxies = << >>
  /\ pro_results = [valid |-> << >>, invalid |-> << >>, error |-> << >>, disposable |-> << >>]
  /\ pro_stats = [total |-> 0, checked |-> 0, good |-> 0, bad |-> 0, remaining |-> 0]
  /\ running = FALSE
  /\ workers = << >>
  /\ stop_seen = FALSE

\* no call of validate_smtp is being followed
InitSmtp ==
  /\ smtp_pc = "idle"
  /\ smtp_email = NoEmail
  /\ mx_records = << >>
  /\ mx_answer = ""
  /\ mx_i = 1
  /\ port_i = 1
  /\ attempts = << >>
  /\ smtp_result = NoDict

\* validate_imap / validate_pop3 and validate_http have not been called
InitMail ==
  /\ mail_pc = "idle"
  /\ mail_method = ""
  /\ mail_email = NoEmail
  /\ host_i = 1
  /\ mport_i = 1
  /\ logins = << >>
  /\ mail_result = NoDict

InitHttp ==
  /\ http_pc = "idle"
  /\ http_email = NoEmail
  /\ url_i = 1
  /\ heads = << >>
  /\ a_answer = ""
  /\ http_result = NoDict

InitProbes == InitSmtp /\ InitMail /\ InitHttp

\* both apps as they start, before any request
Init ==
  /\ InitRequest
  /\ stats = NoDict
  /\ disk_faulty = FALSE
  /\ InitPro
  /\ thr = << >>
  /\ InitProbes

\* the handler answers with an error status and ends
Respond(code) ==
  /\ status_code' = code
  /\ pc' = "done"

\* try_methods_sync has worked up to c: its effects, and its return value
\* handed to the caller (lines 234-235, or 310-313)
Finish(c) ==
  /\ m' = c.m
  /\ last_result_dict' = c.last
  /\ trace' = c.trace
  /\ stats' = c.stats
  /\ good_csv' = c.good
  /\ bad_csv' = c.bad
  /\ lost' = c.lost
  /\ IF ~c.returned
       THEN UNCHANGED <<pc, results, idx, status_code, result>>
     ELSE IF handler = "single"
       THEN /\ Respond(200)
            /\ result' = c.last
            /\ UNCHANGED <<results, idx>>
     ELSE /\ results' = Append(results, c.last)
          /\ idx' = idx + 1
          /\ pc' = "items"
          /\ UNCHANGED <<status_code, result>>
  /\ UNCHANGED <<handler, email, password, request_proxy, methods_order, emails_to_validate,
                 concurrency, disk_faulty>>
  /\ UNCHANGED others

CurrentCall == Call(m, last_result_dict, trace, stats, good_csv, bad_csv, lost)

\* what open/write of _append_result_csv does: it succeeds, or raises on a disk
\* that cannot be written
WriteOutcomes == IF disk_faulty THEN {FALSE} ELSE {TRUE}

\* validate_single_email_api, lines 197-234, up to the call of try_methods_sync
ValidateSingleEmail ==
  /\ pc = "idle"
  /\ \E e \in Addresses \cup {NoEmail, <<"">>, EmailNumber}, pw \in Passwords,
        proxy_data \in ProxyData, requested_method \in RequestedMethods :
       /\ handler' = "single"
       /\ IF ~EmailTruthy(e)
            THEN /\ Respond(400)
                 /\ UNCHANGED <<email, password, request_proxy, methods_order, m,
                                last_result_dict, trace>>
          ELSE IF Truthy(proxy_data) /\ ProxyRaises(ProxyCallArgs)
            THEN /\ Respond(500)
                 /\ UNCHANGED <<email, password, request_proxy, methods_order, m,
                                last_result_dict, trace>>
          ELSE IF requested_method.type = "other"
            THEN /\ Respond(400)
                 /\ UNCHANGED <<email, password, request_proxy, methods_order, m,
                                last_result_dict, trace>>
          ELSE /\ email' = e
               /\ password' = pw
               /\ request_proxy' = proxy_data
               /\ methods_order' = MethodsOrder(requested_method)
               /\ m' = 1
               /\ last_result_dict' = NoDict
               /\ trace' = << >>
               /\ pc' = "loop"
               /\ UNCHANGED status_code
  /\ UNCHANGED <<stats, good_csv, bad_csv, emails_to_validate, idx, results, result,
                 lost, concurrency, disk_faulty>>
  /\ UNCHANGED others

\* try_methods_sync, lines 118-171: one iteration of the loop
TryMethod ==
  /\ pc = "loop"
  /\ m <= Len(methods_order)
  /\ \E net \in NetOutcome, written \in WriteOutcomes :
       Finish(LoopBody(CurrentCall, methods_order, request_proxy,
                       validator_method(methods_order[m], email, password, request_proxy, net),
                       written))

\* try_methods_sync, lines 173-188: the loop is over
Return ==
  /\ pc = "loop"
  /\ m > Len(methods_order)
  /\ \E written \in WriteOutcomes : Finish(LoopEnd(CurrentCall, email, request_proxy, written))

\* ---- validate_multiple_emails_api --------------------------------------
\* An item of "emails": a string (is_str), or a dict with email, password, proxy
Item(is_str, e, pw, pd) == [is_str |-> is_str, email |-> e, password |-> pw, proxy |-> pd]
BatchItems ==
  {Item(TRUE, <<"user", "example.com">>, "", None),
   Item(TRUE, <<"">>, "", None),
   Item(FALSE, NoEmail, "pw", None),
   Item(FALSE, <<"user", "example.com">>, "pw", None),
   Item(FALSE, <<"user", "mailinator.com">>, "", None),
   Item(FALSE, <<"user", "example.com">>, "", "proxy.example:8080")}
\* the batch request's "method": a string, one of a few lists, or another JSON value
BatchRequestedMethods ==
  {r \in RequestedMethods : r.type # "list"}
    \cup {[type |-> "list", name |-> "", list |-> o] :
            o \in {<< >>, <<"mx", "smtp">>, <<"smtp", "smtp">>, <<"ftp", "imap">>}}
ItemLists == UNION {[1..n -> BatchItems] : n \in 0..MaxItems}

\* lines 266-272
InitialStats(n) == [total |-> n, checked |-> 0, remaining |-> n, good |-> 0, bad |-> 0]

\* (mutant of MissingRes: the item is classified invalid)
MissingRes_Invalid ==
  [email |-> NoEmail, is_valid |-> FALSE, status |-> "invalid", method_used |-> "none",
   details |-> "Email missing in item", proxy_used |-> None]

\* lines 288-295
MissingRes ==
  [email |-> NoEmail, is_valid |-> FALSE, status |-> "error", method_used |-> "none",
   details |-> "Email missing in item", proxy_used |-> None]

\* the request's "concurrency" (10 when absent)
Concurrencies == {0, 2}

\* (mutant of ClampConcurrency: 0 is let through)
ClampConcurrency_Zero(c) == IF c < 0 THEN 0 ELSE c

\* lines 250-252
ClampConcurrency(c) == IF c < 1 THEN 1 ELSE c

\* lines 239-272: the request is read and the stats are reset
ValidateMultipleEmails ==
  /\ pc = "idle"
  /\ \E items \in ItemLists, requested_method \in BatchRequestedMethods, c \in Concurrencies :
       /\ handler' = "batch"
       /\ IF items = << >> \/ requested_method.type = "other"
            THEN /\ Respond(400)
                 /\ UNCHANGED <<emails_to_validate, methods_order, stats, concurrency>>
          ELSE /\ emails_to_validate' = items
               /\ methods_order' = MethodsOrder(requested_method)
               /\ concurrency' = ClampConcurrency(c)
               /\ stats' = InitialStats(Len(items))
               /\ pc' = "items"
               /\ UNCHANGED status_code
  /\ idx' = 1
  /\ results' = << >>
  /\ UNCHANGED <<email, password, request_proxy, m, last_result_dict, trace,
                 good_csv, bad_csv, result, lost, disk_faulty>>
  /\ UNCHANGED others

\* validate_item, lines 275-310, up to the call of try_methods_sync
ValidateItem ==
  /\ pc = "items"
  /\ idx <= Len(emails_to_validate)
  /\ LET item == emails_to_validate[idx] IN
     IF ~EmailTruthy(item.email)
       THEN LET line == CsvLine(<<"None">>, "none", "Email missing in item", None) IN
            \E written \in WriteOutcomes :
            /\ good_csv' = append_good(good_csv, FALSE, line, written)
            /\ bad_csv' = append_bad(bad_csv, FALSE, line, written)
            /\ lost' = append_lost(lost, written)
            /\ stats' = update_stats_after_check(stats, MissingRes)
            /\ trace' = <<Event("sink", "none", "error", "Email missing in item", FALSE)>>
            /\ results' = Append(results, MissingRes)
            /\ idx' = idx + 1
            /\ UNCHANGED <<pc, status_code, email, password, request_proxy, m, last_result_dict>>
     ELSE IF Truthy(item.proxy) /\ ProxyRaises(ProxyCallArgs)
       THEN /\ Respond(500)
            /\ UNCHANGED <<good_csv, bad_csv, lost, stats, trace, results, idx, email, password,
                           request_proxy, m, last_result_dict>>
     ELSE /\ email' = item.email
          /\ password' = item.password
          /\ request_proxy' = item.proxy
          /\ m' = 1
          /\ last_result_dict' = NoDict
          /\ trace' = << >>
          /\ pc' = "loop"
          /\ UNCHANGED <<good_csv, bad_csv, lost, stats, results, idx, status_code>>
  /\ UNCHANGED <<handler, methods_order, emails_to_validate, result, concurrency, disk_faulty>>
  /\ UNCHANGED others

\* lines 313-315: every item is done, the results are returned
BatchReturn ==
  /\ pc = "items"
  /\ idx > Len(emails_to_validate)
  /\ Respond(200)
  /\ UNCHANGED <<handler, email, password, request_proxy, methods_order, m, last_result_dict,
                 trace, stats, good_csv, bad_csv, emails_to_validate, idx, results, result,
                 lost, concurrency, disk_faulty>>
  /\ UNCHANGED others

Next == ValidateSingleEmail \/ TryMethod \/ Return

NextBatch == ValidateMultipleEmails \/ ValidateItem \/ TryMethod \/ Return \/ BatchReturn

SpecBatch == Init /\ [][NextBatch]_vars

\* the batch handler while the results files cannot be written
InitDisk ==
  /\ InitRequest
  /\ stats = NoDict
  /\ disk_faulty = TRUE
  /\ InitPro
  /\ thr = << >>
  /\ InitProbes

SpecDisk == InitDisk /\ [][NextBatch]_vars

Spec == Init /\ [][Next]_vars

\* start_validation, lines 357-364, has initialized the counters for an uploaded
\* file of n lines before the single-email request is made
UploadedCounts == 0..MaxItems
InitCounted ==
  /\ InitRequest
  /\ stats \in {InitialStats(n) : n \in UploadedCounts}
  /\ disk_faulty = FALSE
  /\ InitPro
  /\ thr = << >>
  /\ InitProbes

SpecCounted == InitCounted /\ [][Next]_vars

\* ------------------------------------------------- email-validator-pro/app.py
\* load_emails, lines 34-36: the [email, password] pairs of an uploaded emails file
ProEmailLists ==
  {<< >>,
   <<<<<<"user", "example.com">>, "pw">>>>,
   <<<<<<"user", "example.com">>, "pw">>, <<<<"user", "mailinator.com">>, "pw">>>>}
\* load_proxies, lines 38-47: the proxies of an uploaded proxy file
ProProxyLists == {<< >>, <<"proxy.example:8080">>}

\* a worker thread: where it is (begin, check, probe, ended, crashed), the list it
\* iterates over, its total, and the number of items enumerate has handed out
Worker(pc_, emails_, total, i) == [pc |-> pc_, emails |-> emails_, total |-> total, i |-> i]

\* (mutant of worker_breaks: the condition is inverted)
worker_breaks_inverted(running_) == running_

\* line 53: if not running: break
worker_breaks(running_) == ~running_

\* lines 57-61: the result is filed under its status and the counters are derived
pro_record(res, st, status, total, i) ==
  LET filed == [res EXCEPT ![status] = Append(@, status)] IN
  [results |-> filed,
   stats |-> [st EXCEPT !.checked = i + 1,
                        !.good = Len(filed.valid),
                        !.bad = Len(filed.invalid) + Len(filed.error) + Len(filed.disposable),
                        !.remaining = total - (i + 1)]]

\* upload, lines 71-78: an emails file
ProUploadEmails ==
  /\ \E list \in ProEmailLists :
       /\ pro_emails' = list
       /\ pro_stats' = [pro_stats EXCEPT !.total = Len(list), !.remaining = Len(list)]
  /\ UNCHANGED <<proxies, pro_results, running, workers, stop_seen>>
  /\ UNCHANGED <<appVars, thr, probeVars>>

\* upload, lines 79-84: a proxy file
ProUploadProxies ==
  /\ \E list \in ProProxyLists : proxies' = list
  /\ UNCHANGED <<pro_emails, pro_results, pro_stats, running, workers, stop_seen>>
  /\ UNCHANGED <<appVars, thr, probeVars>>

\* start, lines 87-101: 401 without the API key, 400 without emails or when running,
\* else the flag is set and a worker thread is started
ProStart ==
  /\ Len(workers) < MaxStarts
  /\ \E key_ok \in BOOLEAN :
       IF ~key_ok \/ pro_emails = << >> \/ running
         THEN UNCHANGED <<running, workers>>
       ELSE /\ running' = TRUE
            /\ workers' = Append(workers, Worker("begin", << >>, 0, 0))
  /\ UNCHANGED <<pro_emails, proxies, pro_results, pro_stats, stop_seen>>
  /\ UNCHANGED <<appVars, thr, probeVars>>

\* stop, lines 103-111
ProStop ==
  /\ \E key_ok \in BOOLEAN :
       IF ~key_ok
         THEN UNCHANGED <<running, stop_seen>>
       ELSE /\ running' = FALSE
            /\ stop_seen' = TRUE
  /\ UNCHANGED <<pro_emails, proxies, pro_results, pro_stats, workers>>
  /\ UNCHANGED <<appVars, thr, probeVars>>

\* worker, lines 51-52: the thread reads the global emails
WorkerBegin ==
  /\ \E w \in 1..Len(workers) :
       /\ workers[w].pc = "begin"
       /\ workers' = [workers EXCEPT ![w] = Worker("check", pro_emails, Len(pro_emails), 0)]
  /\ UNCHANGED <<pro_emails, proxies, pro_results, pro_stats, running, stop_seen>>
  /\ UNCHANGED <<appVars, thr, probeVars>>

\* worker, lines 52-55: the next item, the running flag, the choice of a proxy
\* (random is not imported: NameError as soon as proxies is not empty)
WorkerCheck ==
  /\ \E w \in 1..Len(workers) :
       /\ workers[w].pc = "check"
       /\ workers' = [workers EXCEPT ![w].pc =
            IF workers[w].i >= Len(workers[w].emails) THEN "ended"
            ELSE IF worker_breaks(running) THEN "ended"
            ELSE IF proxies # << >> THEN "crashed"
            ELSE "probe"]
  /\ UNCHANGED <<pro_emails, proxies, pro_results, pro_stats, running, stop_seen>>
  /\ UNCHANGED <<appVars, thr, probeVars>>

\* worker, lines 56-62: validate_smtp returns, the result is recorded
WorkerRecord ==
  /\ \E w \in 1..Len(workers), net \in NetOutcome :
       /\ workers[w].pc = "probe"
       /\ LET item == workers[w].emails[workers[w].i + 1]
              probe == validate_smtp(item[1], item[2], None, net)
              rec == pro_record(pro_results, pro_stats, probe.res.status,
                                workers[w].total, workers[w].i)
          IN /\ pro_results' = rec.results
             /\ pro_stats' = rec.stats
       /\ workers' = [workers EXCEPT ![w].pc = "check", ![w].i = @ + 1]
  /\ UNCHANGED <<pro_emails, proxies, running, stop_seen>>
  /\ UNCHANGED <<appVars, thr, probeVars>>

NextPro ==
  \/ ProUploadEmails
  \/ ProUploadProxies
  \/ ProStart
  \/ ProStop
  \/ WorkerBegin
  \/ WorkerCheck
  \/ WorkerRecord

SpecPro == Init /\ [][NextPro]_vars

\* ------------------------------- _update_stats_after_check, thread by thread
\* app.py lines 86-104 as the interpreter runs them for concurrent handlers: each
\* assignment stats[k] = f(stats.get(k)) is a read of the shared dict followed by
\* a write, and another thread may run between the two (there is no lock).
\* A thread: the statement it is at, the value it has read, its result's is_valid
SinkThread(pc_, is_valid, tmp) == [pc |-> pc_, is_valid |-> is_valid, tmp |-> tmp]

\* the key of stats the statement at pc_ reads or writes
SinkKey(pc_, is_valid) ==
  CASE pc_ \in {"read_checked", "write_checked"} -> "checked"
    [] pc_ \in {"read_remaining", "write_remaining"} -> "remaining"
    [] OTHER -> IF is_valid THEN "good" ELSE "bad"

\* the order of the statements: lines 95, 96, 97-100
SinkAfter(pc_) ==
  CASE pc_ = "read_checked" -> "write_checked"
    [] pc_ = "write_checked" -> "read_remaining"
    [] pc_ = "read_remaining" -> "write_remaining"
    [] pc_ = "write_remaining" -> "read_count"
    [] pc_ = "read_count" -> "write_count"
    [] OTHER -> "done"

\* the handlers have reached _update_stats_after_check on initialized counters
InitSink ==
  /\ InitRequest
  /\ InitPro
  /\ InitProbes
  /\ stats \in {InitialStats(n) : n \in 1..(NThreads + 1)}
  /\ disk_faulty = FALSE
  /\ thr \in [1..NThreads -> {SinkThread("read_checked", v, 0) : v \in BOOLEAN}]

\* stats.get(k, 0)
SinkRead ==
  /\ \E t \in 1..Len(thr) :
       /\ thr[t].pc \in {"read_checked", "read_remaining", "read_count"}
       /\ thr' = [thr EXCEPT ![t].tmp = stats[SinkKey(thr[t].pc, thr[t].is_valid)],
                             ![t].pc = SinkAfter(@)]
  /\ UNCHANGED <<appVars, proVars, probeVars>>

\* stats[k] = the value read + 1, or max(0, the value read - 1)
SinkWrite ==
  /\ \E t \in 1..Len(thr) :
       /\ thr[t].pc \in {"write_checked", "write_remaining", "write_count"}
       /\ stats' = [stats EXCEPT ![SinkKey(thr[t].pc, thr[t].is_valid)] =
                      IF thr[t].pc = "write_remaining" THEN Max(0, thr[t].tmp - 1)
                      ELSE thr[t].tmp + 1]
       /\ thr' = [thr EXCEPT ![t].pc = SinkAfter(@)]
  /\ UNCHANGED <<pc, handler, email, password, request_proxy, methods_order, m, last_result_dict,
                 trace, good_csv, bad_csv, emails_to_validate, idx, results, status_code, result,
                 lost, concurrency, disk_faulty>>
  /\ UNCHANGED <<proVars, probeVars>>

NextSink == SinkRead \/ SinkWrite

SpecSink == InitSink /\ [][NextSink]_vars

\* ------------------------------- validate_smtp, connection by connection
\* validator.py lines 61-99.  The proxy argument only ends up in the result and is
\* None here.
SMTP_PORTS == <<25, 587, 465>>

\* what dns.resolver.resolve(domain, 'MX') does: it answers n records, or raises
\* NoAnswer, NXDOMAIN or Timeout, or raises something else ("exception")
MxAnswers ==
  {[kind |-> "records", n |-> n] : n \in 0..MaxMx}
    \cup {[kind |-> k, n |-> 0] : k \in {"no_answer", "nxdomain", "timeout", "exception"}}
MxHost(i) == <<"mx", i>>

\* what the with block of lines 80-90 does on one connection: RCPT is answered with
\* a reply code and, as the return leaves the block, smtplib.SMTP.__exit__ sends
\* QUIT and raises SMTPResponseException unless that is answered 221; or
\* SMTPServerDisconnected is raised ("disconnected"), or socket.timeout /
\* SMTPConnectError / ConnectionRefusedError ("connect_error"), or another
\* exception ("exception")
ReplyCodes == {250, 550, 450}
QuitCodes == {221, 500}
SmtpOutcomes ==
  {[kind |-> "reply", code |-> c, quit |-> q] : c \in ReplyCodes, q \in QuitCodes}
    \cup {[kind |-> k, code |-> 0, quit |-> 0] :
            k \in {"disconnected", "connect_error", "exception"}}

Attempt(host, port, outcome) == [host |-> host, port |-> port, outcome |-> outcome]

SmtpReturn(res) ==
  /\ smtp_result' = res
  /\ smtp_pc' = "done"

\* lines 62-66: the domain and the disposable check
SmtpCall ==
  /\ smtp_pc = "idle"
  /\ \E e \in Addresses :
       /\ smtp_email' = e
       /\ IF ~Truthy(get_domain_from_email(e))
            THEN SmtpReturn(ValidationResult(e, "error", "smtp", "Invalid email format", None))
          ELSE IF check_disposable(e)
            THEN SmtpReturn(ValidationResult(e, "disposable", "smtp",
                                             "Disposable email detected", None))
          ELSE smtp_pc' = "lookup" /\ UNCHANGED smtp_result
  /\ UNCHANGED <<mx_answer, mx_records, mx_i, port_i, attempts>>
  /\ UNCHANGED <<appVars, proVars, thr, mailVars, httpVars>>

\* lines 68-75: the MX lookup
SmtpResolve ==
  /\ smtp_pc = "lookup"
  /\ \E answer \in MxAnswers :
       /\ mx_answer' = answer.kind
       /\ CASE answer.kind \in {"no_answer", "nxdomain", "timeout"} ->
                 /\ SmtpReturn(ValidationResult(smtp_email, "invalid", "smtp",
                                                "Could not resolve MX records", None))
                 /\ UNCHANGED <<mx_records, mx_i, port_i>>
            [] answer.kind = "exception" ->
                 /\ SmtpReturn(ValidationResult(smtp_email, "error", "smtp", "MX lookup error", None))
                 /\ UNCHANGED <<mx_records, mx_i, port_i>>
            [] answer.kind = "records" /\ answer.n = 0 ->
                 /\ SmtpReturn(ValidationResult(smtp_email, "invalid", "smtp",
                                                "No MX records found for domain", None))
                 /\ UNCHANGED <<mx_records, mx_i, port_i>>
            [] OTHER ->
                 /\ mx_records' = [i \in 1..answer.n |-> MxHost(i)]
                 /\ mx_i' = 1
                 /\ port_i' = 1
                 /\ smtp_pc' = "connect"
                 /\ UNCHANGED smtp_result
  /\ UNCHANGED <<smtp_email, attempts>>
  /\ UNCHANGED <<appVars, proVars, thr, mailVars, httpVars>>

\* lines 77-97: one connection.  The try statement encloses the for loop over
\* SMTP_PORTS: a reply returns, an exception leaves the port loop, and continue
\* takes the next MX host, whose port loop starts again at its first port.
SmtpConnect ==
  /\ smtp_pc = "connect"
  /\ mx_i <= Len(mx_records)
  /\ \E outcome \in SmtpOutcomes :
       /\ attempts' = Append(attempts, Attempt(mx_records[mx_i], SMTP_PORTS[port_i], outcome))
       /\ CASE outcome.kind = "reply" /\ outcome.quit # 221 ->
                 /\ SmtpReturn(ValidationResult(smtp_email, "error", "smtp",
                                                "Unexpected SMTP error", None))
                 /\ UNCHANGED <<mx_i, port_i>>
            [] outcome.kind = "reply" /\ outcome.code = 250 ->
                 /\ SmtpReturn(ValidationResult(smtp_email, "valid", "smtp",
                                                "SMTP RCPT TO success", None))
                 /\ UNCHANGED <<mx_i, port_i>>
            [] outcome.kind = "reply" /\ outcome.code = 550 ->
                 /\ SmtpReturn(ValidationResult(smtp_email, "invalid", "smtp",
                                                "SMTP RCPT TO failed", None))
                 /\ UNCHANGED <<mx_i, port_i>>
            [] outcome.kind = "reply" ->
                 /\ SmtpReturn(ValidationResult(smtp_email, "invalid", "smtp",
                                                "SMTP RCPT TO: unexpected code", None))
                 /\ UNCHANGED <<mx_i, port_i>>
            [] outcome.kind \in {"disconnected", "connect_error"} ->
                 /\ mx_i' = mx_i + 1
                 /\ port_i' = 1
                 /\ UNCHANGED <<smtp_pc, smtp_result>>
            [] OTHER ->
                 /\ SmtpReturn(ValidationResult(smtp_email, "error", "smtp",
                                                "Unexpected SMTP error", None))
                 /\ UNCHANGED <<mx_i, port_i>>
  /\ UNCHANGED <<smtp_email, mx_answer, mx_records>>
  /\ UNCHANGED <<appVars, proVars, thr, mailVars, httpVars>>

\* line 99: every MX host has been gone through
SmtpExhausted ==
  /\ smtp_pc = "connect"
  /\ mx_i > Len(mx_records)
  /\ SmtpReturn(ValidationResult(smtp_email, "invalid", "smtp",
                  "Could not validate via SMTP (all MX servers failed or refused)", None))
  /\ UNCHANGED <<smtp_email, mx_answer, mx_records, mx_i, port_i, attempts>>
  /\ UNCHANGED <<appVars, proVars, thr, mailVars, httpVars>>

NextSmtp == SmtpCall \/ SmtpResolve \/ SmtpConnect \/ SmtpExhausted

SpecSmtp == Init /\ [][NextSmtp]_vars

\* ------------------------------- validate_imap / validate_pop3, login by login
\* validator.py lines 122-156 and 158-192.  The proxy argument only ends up in the
\* result and is None here.
IMAP_PORTS == <<143, 993>>
POP3_PORTS == <<110, 995>>

MailMethods == {"imap", "pop3"}
MailPorts(method) == IF method = "imap" THEN IMAP_PORTS ELSE POP3_PORTS
\* possible_imap_hosts / possible_pop3_hosts: a host is its prefix and the domain
possible_hosts(method, domain) == << <<method, domain>>, <<"mail", domain>> >>

\* what the inner try block (lines 138-146, 174-182) does on one combination:
\*   "ok"            connect, login and logout/quit go through
\*   "rejected"      imaplib.IMAP4.error / poplib.error_proto is raised
\*   "connect_error" socket.timeout, ConnectionRefusedError or another OSError
\*   "exception"     any other exception: the handler of the outer try
MailOutcomes == {"ok", "rejected", "connect_error", "exception"}

Login(host, port, outcome) == [host |-> host, port |-> port, outcome |-> outcome]

\* the loop indices after a combination that did not return: continue of the inner
\* loop takes the next port, and after the last port, or with continue of the outer
\* loop, the next host starts at its first port
NextCombination_NextHost(h, p, nports, outcome) ==
  [h |-> h + 1, p |-> 1]

NextCombination(h, p, nports, outcome) ==
  IF outcome = "connect_error" /\ p < nports
    THEN [h |-> h, p |-> p + 1]
    ELSE [h |-> h + 1, p |-> 1]

MailReturn(res) ==
  /\ mail_result' = res
  /\ mail_pc' = "done"

\* lines 123-132, 159-168: the password, the disposable and the domain check
MailCall ==
  /\ mail_pc = "idle"
  /\ \E method \in MailMethods, e \in Addresses, pw \in Passwords :
       /\ mail_method' = method
       /\ mail_email' = e
       /\ IF ~Truthy(pw)
            THEN MailReturn(ValidationResult(e, "error", method,
                   IF method = "imap" THEN "Password required for IMAP validation"
                                      ELSE "Password required for POP3 validation", None))
          ELSE IF check_disposable(e)
            THEN MailReturn(ValidationResult(e, "disposable", method,
                                             "Disposable email detected", None))
          ELSE IF ~Truthy(get_domain_from_email(e))
            THEN MailReturn(ValidationResult(e, "error", method, "Invalid email format", None))
          ELSE mail_pc' = "login" /\ UNCHANGED mail_result
  /\ UNCHANGED <<host_i, mport_i, logins>>
  /\ UNCHANGED <<appVars, proVars, thr, smtpVars, httpVars>>

\* lines 134-154, 170-190: one host/port combination
MailLogin ==
  /\ mail_pc = "login"
  /\ host_i <= Len(possible_hosts(mail_method, get_domain_from_email(mail_email)))
  /\ \E outcome \in MailOutcomes :
       LET hosts == possible_hosts(mail_method, get_domain_from_email(mail_email))
           ports == MailPorts(mail_method)
           next == NextCombination(host_i, mport_i, Len(ports), outcome)
       IN
       /\ logins' = Append(logins, Login(hosts[host_i], ports[mport_i], outcome))
       /\ CASE outcome = "ok" ->
                 /\ MailReturn(ValidationResult(mail_email, "valid", mail_method,
                      IF mail_method = "imap" THEN "IMAP login successful"
                                              ELSE "POP3 login successful", None))
                 /\ UNCHANGED <<host_i, mport_i>>
            [] outcome = "rejected" ->
                 /\ MailReturn(ValidationResult(mail_email, "invalid", mail_method,
                      IF mail_method = "imap" THEN "IMAP login failed"
                                              ELSE "POP3 login failed", None))
                 /\ UNCHANGED <<host_i, mport_i>>
            [] OTHER ->
                 /\ host_i' = next.h
                 /\ mport_i' = next.p
                 /\ UNCHANGED <<mail_pc, mail_result>>
  /\ UNCHANGED <<mail_method, mail_email>>
  /\ UNCHANGED <<appVars, proVars, thr, smtpVars, httpVars>>

\* lines 156, 192: every host has been gone through
MailExhausted ==
  /\ mail_pc = "login"
  /\ host_i > Len(possible_hosts(mail_method, get_domain_from_email(mail_email)))
  /\ MailReturn(ValidationResult(mail_email, "invalid", mail_method,
       IF mail_method = "imap"
         THEN "Could not connect or login via IMAP (all attempts failed)"
         ELSE "Could not connect or login via POP3 (all attempts failed)", None))
  /\ UNCHANGED <<mail_method, mail_email, host_i, mport_i, logins>>
  /\ UNCHANGED <<appVars, proVars, thr, smtpVars, httpVars>>

NextMail == MailCall \/ MailLogin \/ MailExhausted

SpecMail == Init /\ [][NextMail]_vars

\* ------------------------------- validate_http, request by request
\* validator.py lines 195-247.  The proxy argument is None here (proxies_config
\* stays empty).
\* urls_to_try: a URL is its host prefix and the domain
urls_to_try(domain) == << <<"mail", domain>>, <<"webmail", domain>>, <<"login", domain>>,
                          <<"", domain>> >>

\* line 222: the status codes taken to mean that a server exists
ServerExists_OkOnly(status_code_) == status_code_ = 200

ServerExists(status_code_) == status_code_ \in {200, 301, 302, 403, 405}

StatusCodes == {200, 301, 302, 403, 405, 404, 500}

\* what requests.head does: a response with its status code and whether its Server
\* header names mail software, or requests.exceptions.RequestException, or another
\* exception
HeadOutcomes ==
  {[kind |-> "response", code |-> c, mail_server |-> f] : c \in StatusCodes, f \in BOOLEAN}
    \cup {[kind |-> k, code |-> 0, mail_server |-> FALSE] :
            k \in {"request_exception", "exception"}}

\* what dns.resolver.resolve(domain, 'A') does
AAnswers == {"records", "no_answer", "nxdomain", "timeout", "exception"}

HeadRequest(url, outcome) == [url |-> url, outcome |-> outcome]

\* lines 224-229: the details of the three valid returns
HeadDetails(outcome) ==
  IF outcome.mail_server THEN "Mail server detected"
  ELSE IF outcome.code \in {200, 301, 302} THEN "Web service accessible"
  ELSE "Service exists"

HttpReturn(res) ==
  /\ http_result' = res
  /\ http_pc' = "done"

\* lines 196-216: the domain and the disposable check
HttpCall ==
  /\ http_pc = "idle"
  /\ \E e \in Addresses :
       /\ http_email' = e
       /\ IF ~Truthy(get_domain_from_email(e))
            THEN HttpReturn(ValidationResult(e, "error", "http", "Invalid email format", None))
          ELSE IF check_disposable(e)
            THEN HttpReturn(ValidationResult(e, "disposable", "http",
                                             "Disposable email detected", None))
          ELSE http_pc' = "head" /\ UNCHANGED http_result
  /\ UNCHANGED <<url_i, heads, a_answer>>
  /\ UNCHANGED <<appVars, proVars, thr, smtpVars, mailVars>>

\* lines 218-236: one HEAD request
HttpRequest ==
  /\ http_pc = "head"
  /\ url_i <= Len(urls_to_try(get_domain_from_email(http_email)))
  /\ \E outcome \in HeadOutcomes :
       /\ heads' = Append(heads, HeadRequest(urls_to_try(get_domain_from_email(http_email))[url_i],
                                             outcome))
       /\ IF outcome.kind = "response" /\ ServerExists(outcome.code)
            THEN /\ HttpReturn(ValidationResult(http_email, "valid", "http",
                                                HeadDetails(outcome), None))
                 /\ UNCHANGED url_i
            ELSE /\ url_i' = url_i + 1
                 /\ UNCHANGED <<http_pc, http_result>>
  /\ UNCHANGED <<http_email, a_answer>>
  /\ UNCHANGED <<appVars, proVars, thr, smtpVars, mailVars>>

\* lines 238-247: no URL was acceptable, the A lookup
HttpLookup ==
  /\ http_pc = "head"
  /\ url_i > Len(urls_to_try(get_domain_from_email(http_email)))
  /\ \E answer \in AAnswers :
       /\ a_answer' = answer
       /\ CASE answer = "records" ->
                 HttpReturn(ValidationResult(http_email, "invalid", "http",
                              "Domain exists but no web services accessible", None))
            [] answer \in {"no_answer", "nxdomain"} ->
                 HttpReturn(ValidationResult(http_email, "invalid", "http",
                              "Domain does not exist", None))
            [] answer = "timeout" ->
                 HttpReturn(ValidationResult(http_email, "error", "http",
                              "DNS timeout during validation", None))
            [] OTHER ->
                 HttpReturn(ValidationResult(http_email, "error", "http",
                              "HTTP validation error", None))
  /\ UNCHANGED <<http_email, url_i, heads>>
  /\ UNCHANGED <<appVars, proVars, thr, smtpVars, mailVars>>

NextHttp == HttpCall \/ HttpRequest \/ HttpLookup

SpecHttp == Init /\ [][NextHttp]_vars

\* ======================================================================
\* Claims
\* ======================================================================
ProbeEvents(tr) == SelectSeq(tr, LAMBDA e : e.ev = "probe")
SinkEvents(tr) == SelectSeq(tr, LAMBDA e : e.ev = "sink")
Known(order) == SelectSeq(order, LAMBDA x : x \in SupportedMethods)
NoNetworkIO(tr) == \A i \in 1..Len(tr) : ~tr[i].io

\* validate_single_email_api has answered 200 with the escalator's verdict
SingleDone == handler = "single" /\ pc = "done" /\ status_code = 200
\* validate_multiple_emails_api has accepted the request (no 400)
BatchAccepted == handler = "batch" /\ emails_to_validate # << >>

\* C1: once a probe has returned a verdict with status valid, the escalator has
\* returned that verdict: no probe and no sleep follows it in the call.
C1_ShortCircuit ==
  \A i \in 1..Len(trace) :
    (handler = "single" /\ trace[i].ev = "probe" /\ trace[i].status = "valid") =>
      /\ \A j \in (i + 1)..Len(trace) : trace[j].ev \notin {"probe", "sleep"}
      /\ SingleDone
      /\ result.status = "valid"
      /\ result.is_valid
      /\ result.method_used = trace[i].method
      /\ result.details = trace[i].details
      /\ result.email = email

\* C1 witness: a probe returned valid while supported methods were left in the order
C1_Witness ==
  /\ SingleDone
  /\ Len(trace) = 2
  /\ trace[1].ev = "probe" /\ trace[1].status = "valid"
  /\ Len(methods_order) > 1
  /\ methods_order[2] \in SupportedMethods

\* C2: when no attempted probe returned valid and at least one was attempted, the
\* verdict returned is that of the last attempted probe.
C2_FallbackToLast ==
  LET probes == ProbeEvents(trace) IN
  (/\ SingleDone
   /\ Len(probes) >= 1
   /\ \A i \in 1..Len(probes) : probes[i].status # "valid") =>
     LET last == probes[Len(probes)] IN
     /\ result.status = last.status
     /\ result.method_used = last.method
     /\ result.details = last.details
     /\ result.email = email
     /\ ~result.is_valid

\* C2 witness: order [mx, smtp], MX invalid, SMTP error: the SMTP error is returned
C2_Witness ==
  /\ SingleDone
  /\ methods_order = <<"mx", "smtp">>
  /\ Len(ProbeEvents(trace)) = 2
  /\ ProbeEvents(trace)[1].status = "invalid"
  /\ ProbeEvents(trace)[2].status = "error"
  /\ result.status = "error" /\ result.method_used = "smtp"

\* C3 (as claimed): every completed batch item made exactly one sink update: one
\* line in the logs and one counter update per completed item.
C3_OneSinkPerItem ==
  (BatchAccepted /\ pc = "items") =>
    /\ Len(good_csv) + Len(bad_csv) = idx - 1
    /\ stats.checked = idx - 1
    /\ (idx > 1 => Len(SinkEvents(trace)) = 1)

\* C4 (as claimed): after a batch of N items has completed, checked = N,
\* remaining = 0 and good + bad = N.
C4_ProgressAfterBatch ==
  (BatchAccepted /\ pc = "done" /\ status_code = 200) =>
    /\ stats.checked = Len(emails_to_validate)
    /\ stats.remaining = 0
    /\ stats.good + stats.bad = Len(emails_to_validate)

\* C5 (as claimed): a batch of N items returns a list of N verdicts whose i-th
\* email is the address of input item i.
C5_OutputOrder ==
  (BatchAccepted /\ pc = "done") =>
    /\ status_code = 200
    /\ Len(results) = Len(emails_to_validate)
    /\ \A i \in 1..Len(emails_to_validate) : results[i].email = emails_to_validate[i].email

\* the domain of an address as the specification derives it (rightmost split), and
\* the modelled domains that match ^[A-Za-z0-9.-]+\.[A-Za-z]{2,}$
SpecDomain(e) == IF Len(e) < 2 THEN None ELSE e[Len(e)]
MatchesDomainPattern(d) == d \in {"example.com"} \cup DISPOSABLE_DOMAINS
SyntaxValid(e) == Len(e) >= 2 /\ MatchesDomainPattern(SpecDomain(e))

\* C6 (as claimed): for a syntactically invalid address and an order that names a
\* probe, the escalator returns status error or invalid with methodUsed "syntax", and
\* no probe touches the network.
C6_SyntaxNoNetwork ==
  (SingleDone /\ ~SyntaxValid(email) /\ Known(methods_order) # << >>) =>
    /\ result.status \in {"error", "invalid"}
    /\ result.method_used = "syntax"
    /\ NoNetworkIO(trace)

\* the details that contain "disposable" (in any letter case)
MentionsDisposable(details) == details = "Disposable email detected"

C7_Case ==
  /\ SingleDone
  /\ email = <<"user", "mailinator.com">>
  /\ methods_order = DEFAULT_METHOD_ORDER
  /\ password = ""

\* C7 (as claimed): user@mailinator.com, order auto, no password: status disposable,
\* methodUsed "smtp", details mention disposable, no SMTP connection.
C7_DisposableAuto_Claimed ==
  C7_Case =>
    /\ result.status = "disposable"
    /\ result.method_used = "smtp"
    /\ MentionsDisposable(result.details)
    /\ \A i \in 1..Len(trace) : trace[i].method = "smtp" => ~trace[i].io

\* C7 (amended): user@mailinator.com, order auto, no password: all five probes are
\* called, none touches the network, and the verdict returned is the last one, of
\* the HTTP probe: status disposable, methodUsed "http", details "Disposable email
\* detected".
C7_DisposableAuto ==
  C7_Case =>
    /\ result.status = "disposable"
    /\ result.method_used = "http"
    /\ result.details = "Disposable email detected"
    /\ Len(ProbeEvents(trace)) = 5
    /\ \A i \in 1..5 : ProbeEvents(trace)[i].method = DEFAULT_METHOD_ORDER[i]
    /\ NoNetworkIO(trace)

\* C7 witness: the scenario has run to its response
C7_Witness == C7_Case /\ Len(ProbeEvents(trace)) = 5

\* C8 (as claimed): for an address whose domain is disposable, whichever probe is
\* attempted first, with or without a password, returns Disposable without network I/O.
C8_DisposableFirstProbe ==
  (/\ handler = "single"
   /\ Len(ProbeEvents(trace)) >= 1
   /\ SpecDomain(email) \in DISPOSABLE_DOMAINS) =>
     /\ ProbeEvents(trace)[1].status = "disposable"
     /\ ~ProbeEvents(trace)[1].io

\* C9 (as claimed): when every listed method is skipped the escalator returns an
\* Error verdict with methodUsed "none" and the fixed diagnostic, no probe invoked.
C9_NoMethodsError ==
  (SingleDone /\ Known(methods_order) = << >>) =>
    /\ result.status = "error"
    /\ result.method_used = "none"
    /\ result.details = "Validator does not support any of the requested methods"
    /\ ProbeEvents(trace) = << >>

\* the results the probes of a call returned, in the order of the calls
Returned(tr, email_, proxy) ==
  [k \in 1..Len(ProbeEvents(tr)) |->
     [res |-> ValidationResult(email_, ProbeEvents(tr)[k].status, ProbeEvents(tr)[k].method,
                               ProbeEvents(tr)[k].details, proxy),
      io |-> ProbeEvents(tr)[k].io,
      raised |-> FALSE]]

\* try_methods_sync run from c over order, its k-th probe call answered by probes[k];
\* stopped (last = NoDict) if it calls more probes than probes holds
RECURSIVE Replay(_, _, _, _, _)
Replay(c, order, email_, proxy, probes) ==
  IF c.returned THEN c
  ELSE IF c.m > Len(order) THEN LoopEnd(c, email_, proxy, TRUE)
  ELSE LET k == Len(ProbeEvents(c.trace)) + 1 IN
       IF order[c.m] \in SupportedMethods /\ k > Len(probes)
         THEN [c EXCEPT !.returned = TRUE, !.last = NoDict]
       ELSE Replay(LoopBody(c, order, proxy, probes[k], TRUE), order, email_, proxy, probes)

\* C10: the probes invoked and the verdict returned for an order are those for the
\* order with the unknown names removed, when a known name remains.
C10_UnknownSkipped ==
  (SingleDone /\ Known(methods_order) # << >>) =>
    LET ref == Replay(Call(1, NoDict, << >>, NoDict, << >>, << >>, 0), Known(methods_order),
                      email, request_proxy, Returned(trace, email, request_proxy))
    IN /\ IsDict(ref.last)
       /\ ProbeEvents(ref.trace) = ProbeEvents(trace)
       /\ ref.last = result

\* C10 witness: an unknown name between two known ones, the probes before and after
\* it called
C10_Witness ==
  /\ SingleDone
  /\ methods_order = <<"mx", "ftp", "smtp">>
  /\ Len(ProbeEvents(trace)) = 2
  /\ ProbeEvents(trace)[2].method = "smtp"

\* the positions of order that hold a supported name: the k-th probe call of a
\* try_methods_sync call is made at position KnownPos(order)[k]
KnownPos(order) ==
  SelectSeq([i \in 1..Len(order) |-> i], LAMBDA i : order[i] \in SupportedMethods)

\* C11 (as claimed): after a probe that returned a non-valid verdict the escalator
\* sleeps, once, exactly when names are left in the order after the position of
\* that probe; it sleeps nowhere else.
C11_SleepIffMore ==
  handler = "single" =>
    /\ \A i \in 1..Len(trace) :
         (trace[i].ev = "probe" /\ trace[i].status # "valid") =>
           LET k == Len(ProbeEvents(SubSeq(trace, 1, i)))
               slept == i + 2 <= Len(trace) /\ trace[i + 2].ev = "sleep"
           IN slept <=> KnownPos(methods_order)[k] < Len(methods_order)
    /\ \A i \in 1..Len(trace) :
         trace[i].ev = "sleep" =>
           i > 2 /\ trace[i - 2].ev = "probe" /\ trace[i - 2].status # "valid"

\* C12 (as claimed): at every batch start the counters are reset to {total: N,
\* checked: 0, good: 0, bad: 0, remaining: N}; in every later step of a worker
\* taken while remaining > 0, checked, good and bad do not decrease and remaining
\* does not increase (email-validator-pro: a batch starts when start launches a
\* worker; the steps of upload are not compared).
C12_Lifecycle ==
  [][/\ Len(workers') > Len(workers) => pro_stats' = InitialStats(Len(pro_emails))
     /\ (Len(workers') = Len(workers) /\ workers' # workers /\ pro_stats.remaining > 0) =>
          /\ pro_stats'.checked >= pro_stats.checked
          /\ pro_stats'.good >= pro_stats.good
          /\ pro_stats'.bad >= pro_stats.bad
          /\ pro_stats'.remaining <= pro_stats.remaining]_vars

Min(a, b) == IF a <= b THEN a ELSE b

\* C13 (as claimed): when k handlers have run the sink update concurrently, no
\* update is lost: checked has grown by k, good + bad by k, and remaining has
\* dropped by min(k, remaining).
C13_NoLostUpdate ==
  (thr # << >> /\ \A t \in 1..Len(thr) : thr[t].pc = "done") =>
    /\ stats.checked = Len(thr)
    /\ stats.good + stats.bad = Len(thr)
    /\ stats.remaining = stats.total - Min(Len(thr), stats.total)

\* the try_methods_sync call of the last item has returned
ItemCallReturned ==
  /\ BatchAccepted
  /\ pc \in {"items", "done"}
  /\ Len(results) >= 1
  /\ results[Len(results)] # MissingRes
  /\ status_code # 500

\* no item of the batch carries a proxy (one that does ends the request at Proxy(...))
NoProxyItem == \A i \in 1..Len(emails_to_validate) : ~Truthy(emails_to_validate[i].proxy)

\* C14: when the lines of the verdicts cannot be written, the failures are swallowed:
\* every verdict is still counted (checked = good + bad = the appends tried), the
\* escalator still goes through the order up to the first valid verdict, and a batch
\* without proxies still returns one verdict per item.
C14_PersistenceNotFatal ==
  (BatchAccepted /\ lost > 0) =>
    /\ stats.checked = Len(good_csv) + Len(bad_csv) + lost
    /\ stats.good + stats.bad = stats.checked
    /\ ItemCallReturned =>
         LET probes == ProbeEvents(trace) IN
         \/ Len(probes) >= 1 /\ probes[Len(probes)].status = "valid"
         \/ Len(probes) = Len(Known(methods_order))
    /\ (pc = "done" /\ NoProxyItem) =>
         status_code = 200 /\ Len(results) = Len(emails_to_validate)

\* C14 witness: a batch of two items answered 200 although no line could be
\* written, the last item having gone through two probes
C14_Witness ==
  /\ BatchAccepted
  /\ pc = "done" /\ status_code = 200
  /\ Len(results) = 2
  /\ Len(ProbeEvents(trace)) = 2
  /\ lost >= 3
  /\ good_csv = << >> /\ bad_csv = << >>
  /\ stats.checked = lost

\* C15 (as claimed): after a stop request no start launches a worker, and a worker
\* only ends when it has processed every item of its list.
C15_StopGatesStarts_Claimed ==
  [][/\ stop_seen => Len(workers') = Len(workers)
     /\ \A w \in 1..Len(workers') :
          workers'[w].pc = "ended" => workers'[w].i = Len(workers'[w].emails)]_vars

\* C15 (amended, email-validator-pro): a stop request clears the running flag, which
\* is what start tests: a start launches a worker exactly when the flag is clear
\* and emails are uploaded, after a stop too.  A worker that is inside a probe
\* completes it and records its result; it takes its next item only while the flag
\* is set, so it ends with unprocessed items only after a stop request.
C15_StopCancels ==
  [][/\ (stop_seen' /\ ~stop_seen) => ~running'
     /\ Len(workers') > Len(workers) => (~running /\ running' /\ pro_emails # << >>)
     /\ \A w \in 1..Len(workers) :
          /\ (workers[w].pc = "check" /\ workers'[w].pc = "probe") => running
          /\ workers[w].pc = "probe" =>
               \/ workers'[w] = workers[w]
               \/ workers'[w].pc = "check" /\ workers'[w].i = workers[w].i + 1
     /\ \A w \in 1..Len(workers') :
          (workers'[w].pc = "ended" /\ workers'[w].i < Len(workers'[w].emails)) =>
            stop_seen']_vars

\* C15 witness: a stop has ended the first worker before its first item, and a
\* start after that stop has launched a second worker, now inside a probe
C15_Witness ==
  /\ stop_seen
  /\ Len(workers) = 2
  /\ workers[1].pc = "ended" /\ workers[1].i = 0 /\ workers[1].emails # << >>
  /\ workers[2].pc = "probe"

\* C16: the step of the batch at an item whose address is missing or empty appends a
\* synthetic verdict (status error, methodUsed "none") to the results, calls no
\* probe, makes one sink update (one line in the not-valid log, checked + 1,
\* bad + 1, remaining - 1 down to 0), and leaves the batch at the next item.
C16_MissingItem ==
  [][(/\ pc = "items"
      /\ idx <= Len(emails_to_validate)
      /\ ~EmailTruthy(emails_to_validate[idx].email)
      /\ idx' # idx) =>
       /\ Len(results') = Len(results) + 1
       /\ results'[idx].status = "error"
       /\ results'[idx].method_used = "none"
       /\ ~results'[idx].is_valid
       /\ ProbeEvents(trace') = << >>
       /\ Len(SinkEvents(trace')) = 1
       /\ Len(bad_csv') = Len(bad_csv) + 1
       /\ bad_csv'[Len(bad_csv')].method = "none"
       /\ good_csv' = good_csv
       /\ stats'.checked = stats.checked + 1
       /\ stats'.bad = stats.bad + 1
       /\ stats'.good = stats.good
       /\ stats'.remaining = Max(0, stats.remaining - 1)
       /\ idx' = idx + 1
       /\ pc' = "items"]_vars

\* C16 witness: a batch whose first item has no address and whose second item was
\* then validated, answered with both verdicts
C16_Witness ==
  /\ BatchAccepted
  /\ pc = "done" /\ status_code = 200
  /\ Len(results) = 2
  /\ results[1].method_used = "none" /\ results[1].status = "error"
  /\ results[2].is_valid
  /\ Len(bad_csv) = 1 /\ Len(good_csv) = 1

\* the try_methods_sync calls of the batch that have started and not returned
InFlight == IF handler = "batch" /\ pc = "loop" THEN 1 ELSE 0

\* C17: in a batch the escalator invocations in flight never exceed the clamped
\* concurrency, which is at least 1, and the probes of an invocation are called one
\* after the other in the order of the supported names of the method order.
C17_ConcurrencyBound ==
  BatchAccepted =>
    /\ concurrency >= 1
    /\ InFlight <= concurrency
    /\ pc = "loop" =>
         LET probes == ProbeEvents(trace) IN
         /\ Len(probes) <= Len(Known(methods_order))
         /\ \A k \in 1..Len(probes) : probes[k].method = Known(methods_order)[k]
         /\ Len(probes) = Len(Known(SubSeq(methods_order, 1, m - 1)))

\* C17 witness: concurrency 0 was clamped to 1; the second item's escalator is in
\* flight, after its first probe, once the first item's has returned
C17_Witness ==
  /\ BatchAccepted
  /\ concurrency = 1
  /\ pc = "loop"
  /\ idx = 2 /\ Len(results) = 1
  /\ Len(ProbeEvents(trace)) = 1

\* C18 (as claimed): a fault raised while one item of a batch is processed (Proxy(...)
\* raising for an item that carries a proxy) ends that item only: the request is
\* still answered 200 with one verdict per item.
C18_FaultIsolation ==
  (BatchAccepted /\ pc = "done" /\ ~NoProxyItem) =>
    /\ status_code = 200
    /\ Len(results) = Len(emails_to_validate)

\* the details of a verdict the escalator made of an exception
IsException(details) == details = "exception: TypeError"

\* C19: no exception crosses the probe/escalator boundary: called with a str address
\* a probe returns a verdict whatever the password and the network do; when a probe
\* raises (the address is not a str) the escalator records an error verdict of that
\* method and goes on with the next method; the request is answered 200 with a
\* verdict once a probe has been called.
C19_NoExceptionCrosses ==
  handler = "single" =>
    LET probes == ProbeEvents(trace) IN
    /\ \A k \in 1..Len(probes) :
         /\ probes[k].status \in {"valid", "invalid", "error", "disposable"}
         /\ IsStr(email) => ~IsException(probes[k].details)
         /\ IsException(probes[k].details) =>
              /\ probes[k].status = "error"
              /\ probes[k].method = Known(methods_order)[k]
              /\ ~probes[k].io
    /\ (pc = "done" /\ probes # << >>) =>
         /\ status_code = 200
         /\ IsDict(result)
         /\ \/ probes[Len(probes)].status = "valid"
            \/ Len(probes) = Len(Known(methods_order))

\* C19 witness: the address is a number, order [smtp, mx]: both probes raised, both
\* exceptions became error verdicts, and the second is returned
C19_Witness ==
  /\ SingleDone
  /\ email = EmailNumber
  /\ methods_order = <<"smtp", "mx">>
  /\ Len(ProbeEvents(trace)) = 2
  /\ IsException(ProbeEvents(trace)[1].details)
  /\ IsException(result.details)
  /\ result.status = "error" /\ result.method_used = "mx"

\* a connection that failed: the server hung up or could not be reached
ConnectionFailed(a) == a.outcome.kind \in {"disconnected", "connect_error"}

\* C20 (as claimed): when the connection to an MX host on port 25 fails, the next
\* connection is to the same host on port 587 (and after a failure there, on port
\* 465), before any other host is tried and before the probe returns.
C20_PortFallback ==
  \A i \in 1..Len(attempts) :
    (ConnectionFailed(attempts[i]) /\ attempts[i].port # 465) =>
      /\ smtp_pc = "done" => i < Len(attempts)
      /\ i < Len(attempts) =>
           /\ attempts[i + 1].host = attempts[i].host
           /\ attempts[i + 1].port = IF attempts[i].port = 25 THEN 587 ELSE 465

\* the connection validate_smtp opened last
LastAttempt == attempts[Len(attempts)]
\* the RCPT reply of the last connection is the code c
LastReply(c) ==
  /\ attempts # << >>
  /\ LastAttempt.outcome.kind = "reply"
  /\ LastAttempt.outcome.code = c

\* C21 (as claimed): a returned SMTP probe that got as far as the MX lookup is
\* valid exactly when the RCPT reply code is 250, invalid when it is 550, and error
\* when the reply code is any other code, when the lookup timed out, or when every
\* connection failed.
C21_SmtpClassification ==
  (smtp_pc = "done" /\ mx_answer # "") =>
    /\ smtp_result.status = "valid" <=> LastReply(250)
    /\ LastReply(550) => smtp_result.status = "invalid"
    /\ (\E c \in ReplyCodes \ {250, 550} : LastReply(c)) => smtp_result.status = "error"
    /\ mx_answer = "timeout" => smtp_result.status = "error"
    /\ (attempts # << >> /\ \A i \in 1..Len(attempts) : ConnectionFailed(attempts[i])) =>
         smtp_result.status = "error"

\* the host/port combinations of the call in progress, in the claimed order: the
\* first host with both ports, then mail.<domain> with both ports
Combinations ==
  LET hosts == possible_hosts(mail_method, get_domain_from_email(mail_email))
      ports == MailPorts(mail_method)
  IN [k \in 1..4 |-> [host |-> hosts[(k + 1) \div 2], port |-> ports[2 - (k % 2)]]]
\* the place of a tried combination in that order
ComboIndex(l) == CHOOSE k \in 1..4 : Combinations[k] = [host |-> l.host, port |-> l.port]
AllConnectErrors == \A i \in 1..Len(logins) : logins[i].outcome = "connect_error"

\* C22: an IMAP/POP3 probe that got past its local checks starts with the first
\* combination; a successful login or a protocol-level rejection is the last
\* combination tried, with verdict valid resp. invalid; after a connection failure
\* the next combination in order is tried; when every combination failed to
\* connect all four were tried and the verdict is invalid "could not connect";
\* the verdict is never error.
C22_MailFallback ==
  logins # << >> =>
    /\ ComboIndex(logins[1]) = 1
    /\ \A i \in 1..Len(logins) :
         /\ logins[i].outcome \in {"ok", "rejected"} => i = Len(logins) /\ mail_pc = "done"
         /\ (logins[i].outcome = "connect_error" /\ ComboIndex(logins[i]) < 4) =>
              /\ mail_pc = "done" => i < Len(logins)
              /\ i < Len(logins) => ComboIndex(logins[i + 1]) = ComboIndex(logins[i]) + 1
         /\ (logins[i].outcome = "connect_error" /\ ComboIndex(logins[i]) = 4) => i = Len(logins)
    /\ mail_pc = "done" =>
         /\ mail_result.status = "valid" <=> logins[Len(logins)].outcome = "ok"
         /\ logins[Len(logins)].outcome = "rejected" => mail_result.status = "invalid"
         /\ mail_result.status # "error"
         /\ AllConnectErrors =>
              /\ Len(logins) = 4
              /\ mail_result.status = "invalid"
              /\ mail_result.details \in
                   {"Could not connect or login via IMAP (all attempts failed)",
                    "Could not connect or login via POP3 (all attempts failed)"}

\* C22 witness: a POP3 probe whose four combinations all failed to connect has returned
C22_Witness ==
  /\ mail_pc = "done"
  /\ mail_method = "pop3"
  /\ Len(logins) = 4
  /\ AllConnectErrors
  /\ logins[2].port = 995
  /\ logins[3].host = <<"mail", "example.com">>

\* the HEAD request validate_http made last
LastHead == heads[Len(heads)]
\* a HEAD request that was answered with an acceptable status
Acceptable(h) == h.outcome.kind = "response" /\ h.outcome.code \in {200, 301, 302, 403, 405}

\* C23: the HTTP probe requests mail., webmail., login. and the bare domain in that
\* order; a response with status 200, 301, 302, 403 or 405 is the last request and
\* the verdict is valid whether or not the Server header matches; after any other
\* response or an exception the next URL is requested; when no URL was acceptable
\* the verdict is invalid if the A lookup answered or reported no such domain, and
\* error if it timed out.
C23_HttpClassification ==
  heads # << >> =>
    /\ \A i \in 1..Len(heads) :
         /\ heads[i].url = <<(<<"mail", "webmail", "login", "">>)[i],
                             get_domain_from_email(http_email)>>
         /\ Acceptable(heads[i]) =>
              /\ i = Len(heads)
              /\ http_pc = "done"
              /\ http_result.status = "valid"
         /\ ~Acceptable(heads[i]) =>
              /\ i < 4 /\ http_pc = "done" => i < Len(heads)
              /\ i = 4 => (http_pc = "done" <=> a_answer # "")
    /\ (http_pc = "done" /\ ~Acceptable(LastHead)) =>
         /\ Len(heads) = 4
         /\ a_answer \in {"records", "no_answer", "nxdomain"} => http_result.status = "invalid"
         /\ a_answer = "timeout" => http_result.status = "error"

\* C23 witness: the third URL answered 403 with no mail fingerprint after a 404 and
\* a request exception, and the probe has returned
C23_Witness ==
  /\ http_pc = "done"
  /\ Len(heads) = 3
  /\ heads[1].outcome.code = 404
  /\ heads[2].outcome.kind = "request_exception"
  /\ heads[3].outcome.code = 403
  /\ ~heads[3].outcome.mail_server
  /\ http_result.status = "valid"

\* C24 (as claimed): the domain of an address is the part after its last "@", and
\* the probes use it: every host an IMAP/POP3 probe connects to is made from that
\* part (for a@b@example.com, imap.example.com and mail.example.com).
C24_RightmostDomain ==
  \A i \in 1..Len(logins) : logins[i].host[2] = SpecDomain(mail_email)

\* the worker threads that are going through the email list
Processing == {w \in 1..Len(workers) : workers[w].pc \in {"check", "probe"}}

\* C25 (as claimed): at most one worker thread is processing the email list at any
\* time, whatever the interleaving of start, stop and worker steps.
C25_SingleWorker == Cardinality(Processing) <= 1

\* C26 (as claimed): when every worker thread has ended after going through the
\* whole list, and no stop request was made, the running flag is false (so that a
\* start request is accepted).
C26_RunningClearedAtEnd ==
  (/\ workers # << >>
   /\ ~stop_seen
   /\ \A w \in 1..Len(workers) :
        workers[w].pc = "ended" /\ workers[w].i = Len(workers[w].emails)) =>
    ~running

\* C27 (as claimed): whenever a worker has recorded an item, in any run over the
\* upload in place and with no other worker processing, good + bad = checked and
\* checked + remaining = total.
C27_CountersPerItem ==
  [][\A w \in 1..Len(workers) :
       (/\ Len(workers') = Len(workers)
        /\ workers[w].pc = "probe"
        /\ workers'[w].pc = "check"
        /\ workers[w].emails = pro_emails
        /\ Processing = {w}) =>
         /\ pro_stats'.good + pro_stats'.bad = pro_stats'.checked
         /\ pro_stats'.checked + pro_stats'.remaining = pro_stats'.total]_vars

\* the verdicts handed to the sink so far with status valid, and with another status
ValidSinks == SelectSeq(SinkEvents(trace), LAMBDA e : e.status = "valid")
OtherSinks == SelectSeq(SinkEvents(trace), LAMBDA e : e.status # "valid")

\* C28: while the progress counters are initialized, good + bad = checked and
\* remaining >= 0; the verdicts counted as good and the lines of the valid log are
\* exactly the verdicts with status valid, and the verdicts counted as bad and the
\* lines of the not-valid log are exactly those with status invalid, disposable,
\* error or no_methods_supported.
C28_CountersAndLogs ==
  IsDict(stats) =>
    /\ stats.good + stats.bad = stats.checked
    /\ stats.remaining >= 0
    /\ stats.good = Len(ValidSinks)
    /\ Len(good_csv) = Len(ValidSinks)
    /\ stats.bad = Len(OtherSinks)
    /\ Len(bad_csv) = Len(OtherSinks)
    /\ \A i \in 1..Len(OtherSinks) :
         OtherSinks[i].status \in {"invalid", "disposable", "error", "no_methods_supported"}

\* C28 witness: three verdicts were counted, one good and two bad, and remaining
\* was held at 0 although only one check was outstanding
C28_Witness ==
  /\ IsDict(stats)
  /\ stats.total = 1
  /\ stats.checked = 3
  /\ stats.good = 1
  /\ stats.bad = 2
  /\ stats.remaining = 0
  /\ Len(good_csv) = 1
  /\ Len(bad_csv) = 2
====
